---- MODULE Spec2Model ----
(***************************************************************************)
(* A model of app.py, the One Once Over live-house reservation page.       *)
(*                                                                         *)
(* The script is re-run from top to bottom on every widget interaction,    *)
(* so one action of the model is one script run: the handler of the widget *)
(* that was used, followed by the rendering of the current page.  What a   *)
(* run renders is a function of the session state and of the rows the      *)
(* database returns, and is given by operators (month_days, live_data,     *)
(* CalendarCells, DetailEvent, AdminList).                                 *)
(*                                                                         *)
(* The database is the four tables of lines 72-80.  A table is a set of    *)
(* rows; a SELECT returns the rows as a list, in rowid order on SQLite and *)
(* in an order the backend chooses on PostgreSQL when the statement has no *)
(* ORDER BY (or for the ties of an ORDER BY).                              *)
(***************************************************************************)
EXTENDS Integers, Sequences, FiniteSets, TLC

VARIABLES
    USE_EXTERNAL_DB,   \* line 13: TRUE = PostgreSQL, FALSE = SQLite
    is_logged_in,      \* st.session_state.is_logged_in (owner mode)
    user_auth,         \* st.session_state.user_auth (member), NoUser if none
    page,              \* st.session_state.page
    selected_date,     \* st.session_state.selected_date, NoDate if None
    view_year,         \* st.session_state.view_year
    view_month,        \* st.session_state.view_month
    events,            \* table events
    event_seq,         \* last id given by AUTOINCREMENT / SERIAL of events
    reservations,      \* table reservations
    reservation_seq,   \* last id given to a reservation
    users,             \* table users
    user_seq,          \* last id given to a user
    site_info,         \* table site_info
    notice,            \* the st.success / st.error messages of the last run
    raised             \* TRUE when the last run ended in an uncaught exception

vars == <<USE_EXTERNAL_DB, is_logged_in, user_auth, page, selected_date,
          view_year, view_month, events, event_seq, reservations,
          reservation_seq, users, user_seq, site_info, notice, raised>>

session == <<is_logged_in, user_auth, page, selected_date, view_year, view_month>>
tables == <<events, event_seq, reservations, reservation_seq, users, user_seq,
            site_info>>

----------------------------------------------------------------------------
(* Bounds of the model. *)

\* rows inserted into events and reservations during one behaviour of Spec
MaxInserts == 3
\* rows inserted into events and reservations during one behaviour of SpecBook
MaxRows == 4
\* how many years the calendar may be moved away from the year of the clock
NavSpan == 1
\* events inserted during one behaviour of SpecEdit
MaxLives == 2
(* The clock read by datetime.now() when the session starts. *)
Clock == [year |-> 2027, month |-> 2]

(* Inputs of the forms. *)
Dates == { <<2027, 2, 14>>, <<2027, 3, 1>> }
Titles == { "Rock Night", "Jazz Night" }
Names == { "", "Aki" }
People == { 2, 3 }
Emails == { "a@x.com" }
MemberEmails == { "a@x.com", "b@x.com" }
NoFile == "(no file)"
Passphrases == { "owner123", "owner12", "OWNER123", "" }
Uploads == { "", "png1", "png2" }
Passwords == { "pw1", "pw2" }

NoDate == << >>
NoUser == [id |-> 0, name |-> "", email |-> ""]
NoBadge == "(no event)"

----------------------------------------------------------------------------
(* Dates and their text form. *)

\* '%02d' of a number below 100: its two decimal digits
Fmt02(n) == << n \div 10, n % 10 >>

\* d.strftime("%Y-%m-%d"): the year, '-', two digits, '-', two digits
strftime(d) == << d[1] >> \o Fmt02(d[2]) \o Fmt02(d[3])

\* f"{view_year}-{view_month:02d}-{day:02d}"
d_str(y, m, day) == << y >> \o Fmt02(m) \o Fmt02(day)

\* the order of two date texts as TEXT columns compare (character by character)
RECURSIVE TextLess(_, _)
TextLess(a, b) ==
    IF a = << >> THEN b # << >>
    ELSE IF b = << >> THEN FALSE
    ELSE IF Head(a) # Head(b) THEN Head(a) < Head(b)
    ELSE TextLess(Tail(a), Tail(b))

----------------------------------------------------------------------------
(* calendar.Calendar(0).monthdayscalendar, as the standard library computes it. *)

isleap(y) == y % 4 = 0 /\ (y % 100 # 0 \/ y % 400 = 0)

mdays(y, m) ==
    IF m = 2 THEN (IF isleap(y) THEN 29 ELSE 28)
    ELSE IF m \in {4, 6, 9, 11} THEN 30 ELSE 31

RECURSIVE days_before_month(_, _)
days_before_month(y, m) ==
    IF m = 1 THEN 0 ELSE days_before_month(y, m - 1) + mdays(y, m - 1)

days_before_year(y) ==
    (y - 1) * 365 + (y - 1) \div 4 - (y - 1) \div 100 + (y - 1) \div 400

\* date(y, m, d).weekday(): Monday is 0
weekday(y, m, d) ==
    (days_before_year(y) + days_before_month(y, m) + d + 6) % 7

\* the first weekday of the calendar: pycal.Calendar(0)
firstweekday == 0

\* itermonthdays without the zeros after the last day: the last week is cut short
itermonthdays_cut(y, m) ==
    LET day1 == weekday(y, m, 1)
        ndays == mdays(y, m)
        days_before == (day1 - firstweekday) % 7
    IN  [i \in 1..days_before |-> 0] \o [i \in 1..ndays |-> i]

\* itermonthdays: zeros before day 1, the days, zeros after the last day
itermonthdays(y, m) ==
    LET day1 == weekday(y, m, 1)
        ndays == mdays(y, m)
        days_before == (day1 - firstweekday) % 7
        days_after == (firstweekday - day1 - ndays) % 7
    IN  [i \in 1..days_before |-> 0]
        \o [i \in 1..ndays |-> i]
        \o [i \in 1..days_after |-> 0]

\* monthdayscalendar: the days cut into lists of seven
RECURSIVE chunks7(_)
chunks7(s) ==
    IF s = << >> THEN << >>
    ELSE IF Len(s) <= 7 THEN << s >>
    ELSE << SubSeq(s, 1, 7) >> \o chunks7(SubSeq(s, 8, Len(s)))

month_days(y, m) == chunks7(itermonthdays(y, m))

----------------------------------------------------------------------------
(* The database: tables, statements and what the backend does with them. *)

DB == [events |-> events, event_seq |-> event_seq,
       reservations |-> reservations, reservation_seq |-> reservation_seq,
       users |-> users, user_seq |-> user_seq, site_info |-> site_info]

\* whether row x has to come before row y under an ORDER BY ("" for none)
Before(order, x, y) ==
    CASE order = "date ASC" -> TextLess(x.date, y.date)
      [] order = "date DESC" -> TextLess(y.date, x.date)
      [] OTHER -> FALSE

\* the rows of S a backend may return first: of the rows no other row has to
\* precede, all of them on PostgreSQL and the one of the lowest rowid on SQLite
Firsts(S, order) ==
    LET top == { x \in S : \A y \in S : ~Before(order, y, x) }
    IN  IF USE_EXTERNAL_DB THEN top
        ELSE { x \in top : \A y \in top : x.id <= y.id }

\* the lists a SELECT may return for the rows S: in the order of its ORDER BY,
\* the rows it leaves unordered in rowid order on SQLite, in any order on PostgreSQL
RECURSIVE Fetch(_, _)
Fetch(S, order) ==
    IF S = {} THEN { << >> }
    ELSE UNION { { << x >> \o s : s \in Fetch(S \ { x }, order) } :
                   x \in Firsts(S, order) }

\* a table scan without ORDER BY
Scan(S) == Fetch(S, "")

\* ORDER BY date ASC
OrderByDateAsc(S) == Fetch(S, "date ASC")

\* ORDER BY date DESC
OrderByDateDesc(S) == Fetch(S, "date DESC")

\* a scan of site_info, whose rows have a key and no id
RECURSIVE KeyScan(_)
KeyScan(S) ==
    IF S = {} THEN { << >> }
    ELSE UNION { { << x >> \o s : s \in KeyScan(S \ { x }) } : x \in S }

\* the columns date, title of every row of a list
DateTitle(s) == [i \in DOMAIN s |-> [date |-> s[i].date, title |-> s[i].title]]

\* a LEFT JOIN instead of the JOIN: a reservation without its event is kept
JoinRows_left(db) ==
    { [id |-> r.id, date |-> e.date, title |-> e.title, name |-> r.name,
       people |-> r.people] :
        <<r, e>> \in { p \in db.reservations \X db.events : p[1].event_id = p[2].id } }
    \cup
    { [id |-> r.id, date |-> NoDate, title |-> "", name |-> r.name,
       people |-> r.people] :
        r \in { x \in db.reservations : \A e \in db.events : e.id # x.event_id } }

\* reservations r JOIN events e ON r.event_id = e.id
JoinRows(db) ==
    { [id |-> r.id, date |-> e.date, title |-> e.title, name |-> r.name,
       people |-> r.people] :
        <<r, e>> \in { p \in db.reservations \X db.events : p[1].event_id = p[2].id } }

\* INSERT OR IGNORE instead of the upsert: the row of a key that has one is kept
Upsert_ignore(table, key, value) ==
    IF \E r \in table : r.key = key THEN table
    ELSE table \cup { [key |-> key, value |-> value] }

\* INSERT OR REPLACE / ON CONFLICT (key) DO UPDATE: the row of the key is replaced
Upsert(table, key, value) ==
    { r \in table : r.key # key } \cup { [key |-> key, value |-> value] }

\* the merge rule instead of the insert: a booking of an (event, email) pair that
\* has a row already adds its party size to that row
InsertReservation_merge(db, params) ==
    IF params[5] # "" /\ \E r \in db.reservations :
                             r.event_id = params[1] /\ r.email = params[5]
    THEN [db EXCEPT !.reservations =
            { IF r.event_id = params[1] /\ r.email = params[5]
                THEN [r EXCEPT !.people = r.people + params[4]] ELSE r :
              r \in db.reservations }]
    ELSE [db EXCEPT
            !.reservation_seq = db.reservation_seq + 1,
            !.reservations = db.reservations \cup
                { [id |-> db.reservation_seq + 1, event_id |-> params[1],
                   user_id |-> params[2], name |-> params[3],
                   people |-> params[4], email |-> params[5],
                   status |-> "active"] }]

\* INSERT INTO reservations (event_id, user_id, name, people, email): a new row
\* with the next id and the default status
InsertReservation(db, params) ==
    [db EXCEPT
        !.reservation_seq = db.reservation_seq + 1,
        !.reservations = db.reservations \cup
            { [id |-> db.reservation_seq + 1, event_id |-> params[1],
               user_id |-> params[2], name |-> params[3],
               people |-> params[4], email |-> params[5],
               status |-> "active"] }]

(* The statements of the script, q.sql naming the statement and q.params its *)
(* parameters.  execute gives ok = FALSE when the backend raises, the tables *)
(* after the statement, and the lists fetchall may return.                   *)
execute(db, q) ==
    LET same == [ok |-> TRUE, db |-> db, rows |-> { << >> }]
    IN
    CASE q.sql = "INSERT INTO events" ->
           [same EXCEPT !.db = [db EXCEPT
               !.event_seq = db.event_seq + 1,
               !.events = db.events \cup
                   { [id |-> db.event_seq + 1, date |-> q.params[1],
                      title |-> q.params[2], description |-> q.params[3],
                      open_time |-> q.params[4], start_time |-> q.params[5],
                      price |-> q.params[6], location |-> q.params[7],
                      image_path |-> q.params[8]] }]]
      [] q.sql = "UPDATE events WHERE id" ->
           [same EXCEPT !.db = [db EXCEPT !.events =
               { IF e.id = q.params[8]
                   THEN [e EXCEPT !.date = q.params[1], !.title = q.params[2],
                                  !.description = q.params[3],
                                  !.open_time = q.params[4],
                                  !.start_time = q.params[5],
                                  !.price = q.params[6], !.location = q.params[7]]
                   ELSE e : e \in db.events }]]
      [] q.sql = "DELETE FROM events WHERE id" ->
           [same EXCEPT !.db = [db EXCEPT !.events =
               { e \in db.events : e.id # q.params[1] }]]
      [] q.sql = "SELECT date, title FROM events" ->
           [same EXCEPT !.rows =
               { DateTitle(s) : s \in Scan(db.events) }]
      [] q.sql = "SELECT * FROM events ORDER BY date DESC" ->
           [same EXCEPT !.rows = OrderByDateDesc(db.events)]
      [] q.sql = "SELECT date, title FROM events ORDER BY date ASC" ->
           [same EXCEPT !.rows =
               { DateTitle(s) : s \in OrderByDateAsc(db.events) }]
      [] q.sql = "SELECT * FROM events WHERE date" ->
           [same EXCEPT !.rows =
               Scan({ e \in db.events : e.date = q.params[1] })]
      [] q.sql = "INSERT INTO reservations" ->
           [same EXCEPT !.db = InsertReservation(db, q.params)]
      [] q.sql = "SELECT reservations JOIN events ORDER BY date DESC" ->
           [same EXCEPT !.rows = OrderByDateDesc(JoinRows(db))]
      [] q.sql = "SELECT value FROM site_info WHERE key" ->
           [same EXCEPT !.rows =
               { [i \in DOMAIN s |-> [value |-> s[i].value]] :
                   s \in KeyScan({ r \in db.site_info : r.key = q.params[1] }) }]
      [] q.sql = "UPSERT site_info" ->
           [same EXCEPT !.db = [db EXCEPT !.site_info =
               Upsert(db.site_info, q.params[1], q.params[2])]]
      [] q.sql = "INSERT INTO users" ->
           IF \E u \in db.users : u.email = q.params[1]
           THEN [same EXCEPT !.ok = FALSE]     \* email TEXT UNIQUE
           ELSE [same EXCEPT !.db = [db EXCEPT
               !.user_seq = db.user_seq + 1,
               !.users = db.users \cup
                   { [id |-> db.user_seq + 1, email |-> q.params[1],
                      password |-> q.params[2], name |-> q.params[3]] }]]
      [] q.sql = "SELECT id, name, email FROM users WHERE email AND password" ->
           [same EXCEPT !.rows =
               { [i \in DOMAIN s |-> [id |-> s[i].id, name |-> s[i].name,
                                       email |-> s[i].email]] :
                   s \in Scan({ u \in db.users :
                                  u.email = q.params[1] /\ u.password = q.params[2] }) }]
      [] OTHER -> [same EXCEPT !.ok = FALSE]   \* a statement the backend rejects

(* What the environment may do to one call of run_query. *)
Faults == { "none", "connect", "execute" }

(* run_query(query, params, commit).  The connection is opened before the   *)
(* try block, so a failure to connect leaves the function as an exception;  *)
(* a failure of execute or commit is caught, reported with st.error and     *)
(* answered with [].  A commit call returns None.                           *)
run_query(db, q, commit, fault) ==
    LET x == execute(db, q)
    IN  IF fault = "connect"
          THEN [raised |-> TRUE, error |-> FALSE, value |-> "exception",
                db |-> db, rows |-> {}]
        ELSE IF fault = "execute" \/ ~x.ok
          THEN [raised |-> FALSE, error |-> TRUE, value |-> "rows",
                db |-> db, rows |-> { << >> }]
        ELSE IF commit
          THEN [raised |-> FALSE, error |-> FALSE, value |-> "None",
                db |-> x.db, rows |-> {}]
        ELSE [raised |-> FALSE, error |-> FALSE, value |-> "rows",
              db |-> db, rows |-> x.rows]

\* the tables after a call
Store(db) ==
    /\ events' = db.events
    /\ event_seq' = db.event_seq
    /\ reservations' = db.reservations
    /\ reservation_seq' = db.reservation_seq
    /\ users' = db.users
    /\ user_seq' = db.user_seq
    /\ site_info' = db.site_info

Stmt(sql, params) == [sql |-> sql, params |-> params]

\* the lists a read may return with a working backend
Rows(q) == run_query(DB, q, FALSE, "none").rows

----------------------------------------------------------------------------
(* Helpers of the script. *)

\* str(value) of a value that is a str already
str(value) == value

\* base64.b64encode(file.read()).decode() of the files of Uploads
b64encode(file) ==
    CASE file = "" -> ""
      [] file = "png1" -> "cG5nMQ=="
      [] file = "png2" -> "cG5nMg=="

\* get_info(key, default) on the tables db: the value of the first row, the
\* default without rows
get_info_from(db, key, default) ==
    LET q == Stmt("SELECT value FROM site_info WHERE key", <<key>>)
        res == CHOOSE s \in run_query(db, q, FALSE, "none").rows : TRUE
    IN  IF res # << >> THEN res[1].value ELSE default

\* get_info(key, default) on the tables as they are
get_info(key, default) == get_info_from(DB, key, default)

\* save_info(key, value): the upsert of either backend, with its outcome
save_info(key, value, fault) ==
    run_query(DB, Stmt("UPSERT site_info", <<key, str(value)>>), TRUE, fault)

\* Texts are sequences of pieces: "LF" is a line feed, "[guitar]" the guitar
\* sign and "[play time:]" the rest of the heading of line 235; every other
\* piece is a run of characters with none of these in it.
LF == "LF"
Heading == << "[guitar]", "[play time:]" >>

\* s.startswith(t)
startswith(s, t) == Len(s) >= Len(t) /\ SubSeq(s, 1, Len(t)) = t

\* s.replace(old, ""): every occurrence of old, from the left, is dropped
RECURSIVE replace(_, _)
replace(s, old) ==
    IF s = << >> THEN << >>
    ELSE IF startswith(s, old) THEN replace(SubSeq(s, Len(old) + 1, Len(s)), old)
    ELSE << Head(s) >> \o replace(Tail(s), old)

\* s.split('\n\n', 1): the text before and the text after the first blank
\* line, the text alone when it has none
split(s) ==
    LET at == { i \in 1..(Len(s) - 1) : s[i] = LF /\ s[i + 1] = LF }
    IN  IF at = {} THEN << s >>
        ELSE LET i == CHOOSE k \in at : \A j \in at : k <= j
             IN  << SubSeq(s, 1, i - 1), SubSeq(s, i + 2, Len(s)) >>

\* lines 235, 289: the heading, the performance time, a blank line, the details
combined_desc(play_time, ds) == Heading \o play_time \o << LF, LF >> \o ds

\* the description line 245 stores: the details alone
stored_desc(play_time, ds) == ds

\* datetime.strptime(text, '%Y-%m-%d') of a date text
strptime(text) == << text[1], text[2] * 10 + text[3], text[4] * 10 + text[5] >>

\* line 237: the path of the flyer of a live, the empty text without a flyer
flyer_path(d, img) == IF img THEN << "img_", strftime(d), ".jpg" >> ELSE << >>

\* the performance times and the details of the forms: the default of the
\* field and another time; no details, one paragraph, two paragraphs
DefaultPlayTime == << "00:00 ~" >>
PlayTimes == { DefaultPlayTime, << "19:30 ~" >> }
Details == { << >>, << "band A" >>, << "band A", LF, LF, "band B" >> }

\* lines 223-231: the add_live form with date d, title t, the performance
\* time, the details and the flyer given, the other fields as they stand
LiveForm(d, t, play_time, ds, img) ==
    [d |-> d, t |-> t, loc |-> "Club Q", op |-> "18:30", stt |-> "19:00",
     play_time |-> play_time, pr |-> "2,500 + 1D", ds |-> ds, img |-> img]

\* lines 269-283: the edit form as it opens for the event e
edit_form(e) ==
    LET desc_parts == split(e.description)
        current_play_time ==
            IF startswith(desc_parts[1], << "[guitar]" >>)
              THEN replace(desc_parts[1], Heading)
              ELSE DefaultPlayTime
        current_ds == IF Len(desc_parts) > 1 THEN desc_parts[2] ELSE desc_parts[1]
    IN  [new_d |-> strptime(e.date), new_t |-> e.title, new_loc |-> e.location,
         new_op |-> e.open_time, new_stt |-> e.start_time,
         new_play_time |-> current_play_time, new_pr |-> e.price,
         new_ds |-> current_ds]

\* a passphrase test that ignores the case of the letters
check_pass_anycase(opw) == opw \in { "owner123", "OWNER123" }

\* the owner passphrase test of Admin Login
check_pass(opw) == opw = "owner123"

\* the messages of a run: the st.error of run_query, then the handler's own
Messages(r, own) ==
    (IF r.error THEN { "db_error" } ELSE {}) \cup (IF r.raised THEN {} ELSE own)

----------------------------------------------------------------------------
(* What a run renders. *)

\* live_data: a dict keyed by date; a later row of a date replaces an earlier one
live_data(rows) ==
    [d \in { rows[i].date : i \in DOMAIN rows } |->
        LET last == CHOOSE i \in DOMAIN rows :
                        /\ rows[i].date = d
                        /\ \A j \in DOMAIN rows : rows[j].date = d => j <= i
        IN  rows[last]]

\* the table of the top page: one list of cells per week; a cell is blank
\* (day 0) or a day number with the title of its badge
CalendarCells(y, m, rows) ==
    LET weeks == month_days(y, m)
        live == live_data(rows)
    IN  [w \in DOMAIN weeks |->
            [idx \in DOMAIN weeks[w] |->
                LET day == weeks[w][idx]
                IN  IF day = 0 THEN [day |-> 0, badge |-> NoBadge]
                    ELSE [day |-> day,
                          badge |-> IF d_str(y, m, day) \in DOMAIN live
                                      THEN live[d_str(y, m, day)].title
                                      ELSE NoBadge]]]

\* the calendars the top page may show, one per order the backend may return
Calendars ==
    { CalendarCells(view_year, view_month, rows) :
        rows \in Rows(Stmt("SELECT date, title FROM events", << >>)) }

\* the badge of a day in a rendered calendar
BadgeOf(cal, day) ==
    LET cell == CHOOSE c \in { cal[w][i] : w \in DOMAIN cal, i \in 1..7 } : c.day = day
    IN  cell.badge

\* the events the detail page may open for a date: ev[0] of the rows of that date
DetailEvents(date) ==
    { ev[1] : ev \in { s \in Rows(Stmt("SELECT * FROM events WHERE date", <<date>>)) :
                          s # << >> } }

\* the lists the admin_users page may show
AdminLists == Rows(Stmt("SELECT reservations JOIN events ORDER BY date DESC", << >>))

----------------------------------------------------------------------------
(* The session after construction: lines 111-116, on empty tables. *)

Init ==
    /\ USE_EXTERNAL_DB \in BOOLEAN
    /\ is_logged_in = FALSE
    /\ user_auth = NoUser
    /\ page = "top"
    /\ selected_date = NoDate
    /\ view_month = Clock.month
    /\ view_year = Clock.year
    /\ events = {}
    /\ event_seq = 0
    /\ reservations = {}
    /\ reservation_seq = 0
    /\ users = {}
    /\ user_seq = 0
    /\ site_info = {}
    /\ notice = {}
    /\ raised = FALSE

\* a run that touches no table and shows no message
Quiet == UNCHANGED <<USE_EXTERNAL_DB, tables>> /\ notice' = {} /\ raised' = FALSE

----------------------------------------------------------------------------
(* Sidebar: navigation. *)

\* line 170
GoTop ==
    /\ page' = "top"
    /\ UNCHANGED <<is_logged_in, user_auth, selected_date, view_year, view_month>>
    /\ Quiet

\* line 171
GoList ==
    /\ page' = "list"
    /\ UNCHANGED <<is_logged_in, user_auth, selected_date, view_year, view_month>>
    /\ Quiet

\* line 197
GoAdminUsers ==
    /\ is_logged_in
    /\ page' = "admin_users"
    /\ UNCHANGED <<is_logged_in, user_auth, selected_date, view_year, view_month>>
    /\ Quiet

----------------------------------------------------------------------------
(* Sidebar: owner mode. *)

\* lines 307-310
AdminLogin(opw) ==
    /\ ~is_logged_in
    /\ is_logged_in' = IF check_pass(opw) THEN TRUE ELSE is_logged_in
    /\ UNCHANGED <<user_auth, page, selected_date, view_year, view_month>>
    /\ Quiet

\* lines 248-250
OwnerLogout ==
    /\ is_logged_in
    /\ is_logged_in' = FALSE
    /\ UNCHANGED <<user_auth, page, selected_date, view_year, view_month>>
    /\ Quiet

\* the part of the state a handler of the tables leaves alone
KeepSession == UNCHANGED <<USE_EXTERNAL_DB, session>>

\* lines 203-208: a new top image; without a file the click does nothing
SaveTopImage(new_top, fault) ==
    /\ is_logged_in
    /\ IF new_top # NoFile
         THEN LET r == save_info("top_image_b64", b64encode(new_top), fault)
              IN  Store(r.db) /\ raised' = r.raised /\ notice' = {}
         ELSE Quiet
    /\ KeepSession

\* lines 213-218: a new background image; without a file the click does nothing
SaveBgImage(new_bg, fault) ==
    /\ is_logged_in
    /\ IF new_bg # NoFile
         THEN LET r == save_info("bg_image", b64encode(new_bg), fault)
              IN  Store(r.db) /\ raised' = r.raised /\ notice' = {}
         ELSE Quiet
    /\ KeepSession

\* lines 233-246: the add_live form f submitted; no rerun follows, the
\* message stays
AddLiveForm(f, fault) ==
    /\ is_logged_in
    /\ LET q == Stmt("INSERT INTO events",
                     << strftime(f.d), f.t, stored_desc(f.play_time, f.ds), f.op,
                        f.stt, f.pr, f.loc, flyer_path(f.d, f.img) >>)
           r == run_query(DB, q, TRUE, fault)
       IN  Store(r.db) /\ raised' = r.raised /\ notice' = Messages(r, { "live_added" })
    /\ KeepSession

\* details typed as the edit form writes a description: the heading, the
\* default performance time and a blank line
HeadedDetails == combined_desc(DefaultPlayTime, << >>)

\* a new live of date d and title t without a flyer, its details typed with
\* the heading (the description of such a live reads the same after every
\* save of the edit form; the other details are those of SpecEdit)
AddLive(d, t, fault) ==
    AddLiveForm(LiveForm(d, t, DefaultPlayTime, HeadedDetails, FALSE), fault)

\* the label of an event in the select box of line 260
Label(e) == <<e.date, e.title>>

\* line 264: the first event of the list with the selected label
edit_data(event_list, selected_label) ==
    LET first == CHOOSE i \in DOMAIN event_list :
                     /\ Label(event_list[i]) = selected_label
                     /\ \A j \in DOMAIN event_list :
                            Label(event_list[j]) = selected_label => i <= j
    IN  event_list[first]

\* lines 254-264: the events the select box may stand for when it shows the label
EditTargets(selected_label) ==
    { edit_data(all_events, selected_label) :
        all_events \in { l \in Rows(Stmt("SELECT * FROM events ORDER BY date DESC", << >>)) :
                            \E i \in DOMAIN l : Label(l[i]) = selected_label } }

\* lines 289-294: the UPDATE of the event e with the fields f of the edit form
update_live(e, f) ==
    LET updated_desc == combined_desc(f.new_play_time, f.new_ds)
    IN  Stmt("UPDATE events WHERE id",
             << strftime(f.new_d), f.new_t, updated_desc, f.new_op,
                f.new_stt, f.new_pr, f.new_loc, e.id >>)

\* lines 287-296: the edit form of the event e saved with the fields f
EditSave(e, f, fault) ==
    /\ is_logged_in
    /\ LET r == run_query(DB, update_live(e, f), TRUE, fault)
       IN  Store(r.db) /\ raised' = r.raised /\ notice' = {}
    /\ KeepSession

\* the edit form of e with a date and a title of the form's fields, the other
\* fields left as the form shows them
EditForms(e) ==
    { [edit_form(e) EXCEPT !.new_d = d, !.new_t = t] : d \in Dates, t \in Titles }

\* lines 267-296: the edit form saved for the event picked in the select box
EditLive(selected_label, fault) ==
    /\ selected_label \in { Label(e) : e \in events }
    /\ \E e \in EditTargets(selected_label) :
          \E f \in EditForms(e) : EditSave(e, f, fault)

\* lines 299-302: the delete button for the event picked in the select box
DeleteLive(selected_label, fault) ==
    /\ is_logged_in
    /\ selected_label \in { Label(e) : e \in events }
    /\ \E e \in EditTargets(selected_label) :
        LET r == run_query(DB, Stmt("DELETE FROM events WHERE id", <<e.id>>), TRUE, fault)
        IN  Store(r.db) /\ raised' = r.raised /\ notice' = {}
    /\ KeepSession

----------------------------------------------------------------------------
(* Sidebar: members. *)

\* lines 183-187
MemberLogin(le, lp, fault) ==
    /\ user_auth = NoUser
    /\ LET r == run_query(DB, Stmt("SELECT id, name, email FROM users WHERE email AND password",
                                   <<le, lp>>), FALSE, fault)
       IN  /\ raised' = r.raised
           /\ notice' = Messages(r, {})
           /\ IF r.raised THEN UNCHANGED user_auth
              ELSE \E u \in r.rows :
                     user_auth' = IF u # << >> THEN u[1] ELSE user_auth
    /\ UNCHANGED <<USE_EXTERNAL_DB, tables, is_logged_in, page, selected_date,
                   view_year, view_month>>

\* lines 190-192
Register(re, rp, rn, fault) ==
    /\ user_auth = NoUser
    /\ LET r == run_query(DB, Stmt("INSERT INTO users", <<re, rp, rn>>), TRUE, fault)
       IN  Store(r.db) /\ raised' = r.raised /\ notice' = {}
    /\ KeepSession

\* line 177
MemberLogout ==
    /\ user_auth # NoUser
    /\ user_auth' = NoUser
    /\ UNCHANGED <<is_logged_in, page, selected_date, view_year, view_month>>
    /\ Quiet

\* line 176: no branch of the main part renders this page
MyPage ==
    /\ user_auth # NoUser
    /\ page' = "mypage"
    /\ UNCHANGED <<is_logged_in, user_auth, selected_date, view_year, view_month>>
    /\ Quiet

----------------------------------------------------------------------------
(* Top page. *)

\* a decrement without the wrap of line 392: the month before January is 0
prev_month_nowrap(y, m) == << y, m - 1 >>

\* lines 391-392: the month before month m of year y, as << year, month >>
prev_month(y, m) == IF m - 1 = 0 THEN << y - 1, 12 >> ELSE << y, m - 1 >>

\* lines 397-398: the month after month m of year y, as << year, month >>
next_month(y, m) == IF m + 1 = 13 THEN << y + 1, 1 >> ELSE << y, m + 1 >>

\* lines 390-393
PrevMonth ==
    /\ page = "top"
    /\ view_year > Clock.year - NavSpan \/ view_month > 1
    /\ view_year' = prev_month(view_year, view_month)[1]
    /\ view_month' = prev_month(view_year, view_month)[2]
    /\ UNCHANGED <<is_logged_in, user_auth, page, selected_date>>
    /\ Quiet

\* lines 396-399
NextMonth ==
    /\ page = "top"
    /\ view_year < Clock.year + NavSpan \/ view_month < 12
    /\ view_year' = next_month(view_year, view_month)[1]
    /\ view_month' = next_month(view_year, view_month)[2]
    /\ UNCHANGED <<is_logged_in, user_auth, page, selected_date>>
    /\ Quiet

\* lines 418, 433-435: the link of a day cell puts the date in the query
OpenDate(date) ==
    /\ page = "top"
    /\ selected_date' = date
    /\ page' = "detail"
    /\ UNCHANGED <<is_logged_in, user_auth, view_year, view_month>>
    /\ Quiet

----------------------------------------------------------------------------
(* Detail page and list page. *)

\* line 438
BackToTop ==
    /\ page = "detail"
    /\ page' = "top"
    /\ UNCHANGED <<is_logged_in, user_auth, selected_date, view_year, view_month>>
    /\ Quiet

\* lines 461-469: the booking form of the event the page shows
Book(n, p, m, fault) ==
    /\ page = "detail"
    /\ \E e \in DetailEvents(selected_date) :
        LET uid == IF user_auth # NoUser THEN user_auth.id ELSE 0
            r == run_query(DB, Stmt("INSERT INTO reservations", <<e.id, uid, n, p, m>>),
                           TRUE, fault)
        IN  Store(r.db) /\ raised' = r.raised /\ notice' = Messages(r, { "booked" })
    /\ KeepSession

\* lines 473-477: a row of the list page
SelectFromList(i) ==
    /\ page = "list"
    /\ \E res \in Rows(Stmt("SELECT date, title FROM events ORDER BY date ASC", << >>)) :
        /\ i \in DOMAIN res
        /\ selected_date' = res[i].date
    /\ page' = "detail"
    /\ UNCHANGED <<is_logged_in, user_auth, view_year, view_month>>
    /\ Quiet

----------------------------------------------------------------------------
(* Specifications. *)

\* rows may still be inserted under a bound of n rows for a behaviour
Room(n) == event_seq + reservation_seq < n

DateTexts == { strftime(d) : d \in Dates }
Labels == DateTexts \X Titles

\* the page, the owner gate, the events and the bookings, on a working backend
Next ==
    \/ GoTop
    \/ GoList
    \/ GoAdminUsers
    \/ \E opw \in Passphrases : AdminLogin(opw)
    \/ OwnerLogout
    \/ Room(MaxInserts) /\ \E d \in Dates, t \in Titles : AddLive(d, t, "none")
    \/ \E lbl \in Labels : EditLive(lbl, "none")
    \/ \E lbl \in Labels : DeleteLive(lbl, "none")
    \/ \E date \in DateTexts : OpenDate(date)
    \/ BackToTop
    \/ Room(MaxInserts) /\ \E n \in Names, p \in People, m \in Emails : Book(n, p, m, "none")
    \/ \E i \in 1..MaxInserts : SelectFromList(i)

Spec == Init /\ [][Next]_vars

\* bookings and deletions of events: more rows, of one title and one name
NextBook ==
    \/ GoTop
    \/ GoAdminUsers
    \/ AdminLogin("owner123")
    \/ OwnerLogout
    \/ Room(MaxRows) /\ \E d \in Dates : AddLive(d, "Rock Night", "none")
    \/ \E lbl \in Labels : DeleteLive(lbl, "none")
    \/ \E date \in DateTexts : OpenDate(date)
    \/ Room(MaxRows) /\ \E p \in People, m \in Emails : Book("Aki", p, m, "none")

SpecBook == Init /\ [][NextBook]_vars

\* the calendar of the top page and its month buttons
NextCal ==
    \/ PrevMonth
    \/ NextMonth
    \/ GoTop
    \/ GoList
    \/ \E date \in DateTexts : OpenDate(date)
    \/ BackToTop

SpecCal == Init /\ [][NextCal]_vars

\* the site images, saved by this session and by another owner session
PeerSave(key, file) ==
    /\ LET r == save_info(key, b64encode(file), "none")
       IN  Store(r.db)
    /\ UNCHANGED <<USE_EXTERNAL_DB, session, notice, raised>>

NextInfo ==
    \/ GoTop
    \/ GoList
    \/ \E opw \in Passphrases : AdminLogin(opw)
    \/ OwnerLogout
    \/ \E f \in Uploads \cup { NoFile } : SaveTopImage(f, "none")
    \/ \E f \in Uploads \cup { NoFile } : SaveBgImage(f, "none")
    \/ \E key \in { "top_image_b64", "bg_image" }, f \in Uploads : PeerSave(key, f)

SpecInfo == Init /\ [][NextInfo]_vars

\* the member and design handlers on a backend that may fail
NextFault ==
    \/ \E opw \in Passphrases : AdminLogin(opw)
    \/ OwnerLogout
    \/ \E re \in MemberEmails, rp \in Passwords, rn \in Names, f \in Faults :
           Register(re, rp, rn, f)
    \/ \E le \in MemberEmails, lp \in Passwords, f \in Faults : MemberLogin(le, lp, f)
    \/ MemberLogout
    \/ MyPage
    \/ GoTop
    \/ \E file \in Uploads \cup { NoFile }, f \in Faults : SaveBgImage(file, f)

SpecFault == Init /\ [][NextFault]_vars

\* the add_live and the edit forms, with the performance times, the details
\* and the flyers of the forms
NextEdit ==
    \/ AdminLogin("owner123")
    \/ event_seq < MaxLives /\
          \E d \in Dates, play_time \in PlayTimes, ds \in Details, img \in BOOLEAN :
              AddLiveForm(LiveForm(d, "Rock Night", play_time, ds, img), "none")
    \/ \E lbl \in Labels : EditLive(lbl, "none")
    \/ \E lbl \in Labels : DeleteLive(lbl, "none")

SpecEdit == Init /\ [][NextEdit]_vars

----------------------------------------------------------------------------
(* Properties. *)

\* the sum of the party sizes of a set of reservations
RECURSIVE SumPeople(_)
SumPeople(S) ==
    IF S = {} THEN 0
    ELSE LET r == CHOOSE x \in S : TRUE IN r.people + SumPeople(S \ { r })

\* the lists of a list of lists, one after the other
RECURSIVE Flatten(_)
Flatten(ss) == IF ss = << >> THEN << >> ELSE Head(ss) \o Flatten(Tail(ss))

\* the length of a month by the calendar's rule: thirty days have September,
\* April, June and November, February has 28 and 29 in a leap year
MonthLength(y, m) ==
    LET leap == (y % 4 = 0 /\ y % 100 # 0) \/ y % 400 = 0
    IN  << 31, IF leap THEN 29 ELSE 28, 31, 30, 31, 30, 31, 31, 30, 31, 30, 31 >>[m]

\* the column (1 = the first of a row) of a day in the grid of a month
ColumnOf(y, m, day) ==
    LET flat == Flatten(month_days(y, m))
        i == CHOOSE k \in DOMAIN flat : flat[k] = day
    IN  ((i - 1) % 7) + 1

(* C2: the grid of the month in view is made of rows of exactly seven cells, *)
(* Monday first (1 February 2027 is a Monday, and the first day of the next  *)
(* month stands in the column after that of the last day of this month), and *)
(* its cells read: blanks, then the days 1..N of the month in increasing     *)
(* order, each once, then blanks.                                            *)
C2_CompleteWeeks ==
    LET weeks == month_days(view_year, view_month)
        N == MonthLength(view_year, view_month)
        flat == Flatten(weeks)
        ny == IF view_month = 12 THEN view_year + 1 ELSE view_year
        nm == IF view_month = 12 THEN 1 ELSE view_month + 1
    IN  /\ view_month \in 1..12
        /\ \A w \in DOMAIN weeks : Len(weeks[w]) = 7
        /\ \E lead \in 0..Len(flat) :
              /\ Len(flat) >= lead + N
              /\ \A i \in DOMAIN flat :
                    flat[i] = IF i > lead /\ i <= lead + N THEN i - lead ELSE 0
        /\ (view_year = 2027 /\ view_month = 2) => ColumnOf(2027, 2, 1) = 1
        /\ ColumnOf(ny, nm, 1) = (ColumnOf(view_year, view_month, N) % 7) + 1

\* the top page shows February of a leap year: 29 days in five rows
W_C2 ==
    /\ page = "top"
    /\ view_year = 2028 /\ view_month = 2
    /\ Len(month_days(view_year, view_month)) = 5

(* C1: a calendar rendered right after an event of date D and title T was    *)
(* inserted, for the month of D, shows the badge T in the cell of day D,     *)
(* whatever list of rows the backend returns for the read.                   *)
C1_InsertShowsOnCalendar ==
    [][ \A d \in Dates, t \in Titles :
          ( /\ AddLive(d, t, "none")
            /\ page' = "top"
            /\ view_year' = d[1] /\ view_month' = d[2] )
          => \A cal \in Calendars' : BadgeOf(cal, d[3]) = t ]_vars

\* the reservations of an (event, email) pair
SameBooking(event_id, email) ==
    { r \in reservations : r.event_id = event_id /\ r.email = email }

(* C3: every submitted booking form adds exactly one row, with a new id, the *)
(* id of the event the page shows and the submitted name, party size and     *)
(* email; every row that was there stays as it was, so the rows of the       *)
(* (event, email) pair are one more and their party sizes sum to the         *)
(* requests.                                                                 *)
C3_AlwaysInsert ==
    [][ \A n \in Names, p \in People, m \in Emails :
          Book(n, p, m, "none") =>
            \E row \in reservations' :
                /\ row \notin reservations
                /\ \A r \in reservations : r.id # row.id
                /\ reservations' = reservations \cup { row }
                /\ row.name = n /\ row.people = p /\ row.email = m
                /\ row.event_id \in { e.id : e \in DetailEvents(selected_date) }
                /\ Cardinality(SameBooking(row.event_id, m)') =
                       Cardinality(SameBooking(row.event_id, m)) + 1
                /\ SumPeople(SameBooking(row.event_id, m)') =
                       SumPeople(SameBooking(row.event_id, m)) + p ]_vars

\* two bookings of one event and one email, of 2 and of 3 people, are two rows
W_C3 ==
    /\ notice = { "booked" }
    /\ \E r1, r2 \in reservations :
          /\ r1.id # r2.id
          /\ r1.event_id = r2.event_id /\ r1.email = r2.email
          /\ r1.people = 2 /\ r2.people = 3
          /\ SumPeople(SameBooking(r1.event_id, r1.email)) = 5

\* an Admin Login step sets owner mode exactly for the configured passphrase
GateStep ==
    \A opw \in Passphrases :
        AdminLogin(opw) => (is_logged_in' <=> opw = "owner123")

(* C4 as stated: an Admin Login with another passphrase leaves owner mode    *)
(* off, one with the configured passphrase turns it on, and once on it stays *)
(* on for the rest of the session.                                           *)
C4_OwnerModeForTheSession ==
    [][ GateStep /\ (is_logged_in => is_logged_in') ]_vars

(* C4, amended: an Admin Login with another passphrase leaves owner mode     *)
(* off, one with the configured passphrase turns it on, and once on it is    *)
(* turned off by the owner logout button and by no other step.               *)
C4_OwnerModeUntilLogout ==
    [][ GateStep /\ ((is_logged_in /\ ~is_logged_in') => OwnerLogout) ]_vars

\* owner mode is still on after a booking on the detail page
W_C4 ==
    /\ is_logged_in
    /\ page = "detail"
    /\ notice = { "booked" }
    /\ reservations # {}

(* C5: the admin reservation list (the admin_users page) is rendered only    *)
(* for a session in owner mode.                                              *)
C5_AdminListNeedsOwnerMode == page = "admin_users" => is_logged_in

(* C6: no failure of a run_query call leaves it as an exception: a run never *)
(* ends in an uncaught exception.                                            *)
C6_NoFailureEscapes == raised = FALSE

(* C7: a booking form submitted with an empty name inserts no row and        *)
(* reports no booking.                                                       *)
C7_EmptyNameRejected ==
    [][ \A p \in People, m \in Emails :
          Book("", p, m, "none") =>
            (reservations' = reservations /\ "booked" \notin notice') ]_vars

\* the reservations whose event exists
Live == { r \in reservations : \E e \in events : e.id = r.event_id }

\* every list the admin_users page may show holds the live reservations, each
\* once, with its name and party size, and no other row
ListsExactlyLive ==
    /\ AdminLists # {}
    /\ \A list \in AdminLists :
          /\ Len(list) = Cardinality(Live)
          /\ { list[i].id : i \in DOMAIN list } = { r.id : r \in Live }
          /\ \A i \in DOMAIN list :
                \E r \in Live : /\ r.id = list[i].id
                                /\ r.name = list[i].name
                                /\ r.people = list[i].people

(* C8: deleting an event removes that one event row and leaves every         *)
(* reservation in place; the admin list always comes back, and holds exactly *)
(* the reservations whose event still exists.                                *)
C8_OrphansTolerated ==
    /\ [][ \A lbl \in Labels :
             DeleteLive(lbl, "none") =>
                /\ reservations' = reservations
                /\ \E e \in events : events' = events \ { e } ]_vars
    /\ []ListsExactlyLive

\* the admin list is shown while one reservation is orphaned and another is not
W_C8 ==
    /\ page = "admin_users"
    /\ Live # {}
    /\ reservations \ Live # {}

InfoKeys == { "top_image_b64", "bg_image" }
Default == "(default)"

\* a step that commits save_info(key, b64encode(file)), in this session or another
SaveStep(key, file) ==
    \/ PeerSave(key, file)
    \/ key = "top_image_b64" /\ SaveTopImage(file, "none")
    \/ key = "bg_image" /\ SaveBgImage(file, "none")

(* C9: site_info holds at most one row per key; get_info gives the default   *)
(* for a key never saved (the default at the start, and no step but a save   *)
(* changes what get_info gives); after a save of a key get_info gives the    *)
(* value of that save, and what it gives for the other key is unchanged,     *)
(* for the saves that happen and, in every state, for every save that may    *)
(* come next (one that writes the value a key holds already included).       *)
C9_LastWriterWins ==
    /\ \A k \in InfoKeys : get_info(k, Default) = Default
    /\ [][ /\ \A k \in InfoKeys, f \in Uploads :
                SaveStep(k, f) =>
                    /\ get_info(k, Default)' = b64encode(f)
                    /\ \A k2 \in InfoKeys \ { k } :
                          get_info(k2, Default)' = get_info(k2, Default)
           /\ (~ \E k \in InfoKeys, f \in Uploads : SaveStep(k, f)) =>
                \A k \in InfoKeys : get_info(k, Default)' = get_info(k, Default)
        ]_vars
    /\ [](\A k \in InfoKeys :
            /\ Cardinality({ r \in site_info : r.key = k }) <= 1
            /\ ({ r \in site_info : r.key = k } = {}) => get_info(k, Default) = Default)
    /\ [](\A k \in InfoKeys, f \in Uploads :
            LET saved == save_info(k, b64encode(f), "none").db
            IN  /\ get_info_from(saved, k, Default) = b64encode(f)
                /\ \A k2 \in InfoKeys \ { k } :
                      get_info_from(saved, k2, Default) = get_info(k2, Default))

\* both keys hold a saved image
W_C9 ==
    /\ get_info("bg_image", Default) = "cG5nMg=="
    /\ get_info("top_image_b64", Default) = "cG5nMQ=="

(* C10: for every date that has events, one event is surfaced: every         *)
(* calendar the top page may show has the same title in the badge of the     *)
(* date, whatever the order of the rows, and the detail page of the date     *)
(* opens the event of that title.                                            *)
C10_OneEventPerDate ==
    \A date \in DateTexts :
        ({ e \in events : e.date = date } # {}) =>
            \E title \in Titles :
                /\ \A rows \in Rows(Stmt("SELECT date, title FROM events", << >>)) :
                      live_data(rows)[date].title = title
                /\ \A e \in DetailEvents(date) : e.title = title

\* the months from year 0 to the month in view
MonthIndex == view_year * 12 + (view_month - 1)

(* C11: view_month stays in 1..12; a previous-month click moves the month in *)
(* view back by exactly one month (January to December of the year before),  *)
(* a next-month click forward by exactly one (December to January of the     *)
(* year after); next after previous, and previous after next, give the month *)
(* in view again, for the clicks that happen and for the month in view of    *)
(* every state.                                                              *)
C11_MonthNavigation ==
    /\ [](view_month \in 1..12)
    /\ [][ /\ PrevMonth =>
                /\ MonthIndex' = MonthIndex - 1
                /\ (view_month = 1) => (view_month' = 12 /\ view_year' = view_year - 1)
                /\ next_month(view_year', view_month') = << view_year, view_month >>
           /\ NextMonth =>
                /\ MonthIndex' = MonthIndex + 1
                /\ (view_month = 12) => (view_month' = 1 /\ view_year' = view_year + 1)
                /\ prev_month(view_year', view_month') = << view_year, view_month >>
        ]_vars
    /\ [](LET p == prev_month(view_year, view_month)
              n == next_month(view_year, view_month)
          IN  /\ next_month(p[1], p[2]) = << view_year, view_month >>
              /\ prev_month(n[1], n[2]) = << view_year, view_month >>)

\* the top page shows December of the year before the session started
W_C11 ==
    /\ page = "top"
    /\ view_year = Clock.year - 1
    /\ view_month = 12

\* the row of the event e after its edit form is saved as it opens (the UPDATE
\* writes every column but id and image_path, so the row of a row saved once
\* is the row saved twice)
Resaved(e) ==
    LET after == run_query(DB, update_live(e, edit_form(e)), TRUE, "none").db.events
    IN  CHOOSE x \in after : x.id = e.id

(* C12: the edit form of an event created with performance time P and        *)
(* details D shows P and D; saving the edit form as it opens leaves every    *)
(* row of events as it was (the description and the image_path of the event  *)
(* and every other event), for the saves that happen and for every event of  *)
(* every state; and saving it twice gives the row that saving it once gives. *)
C12_EditRoundTrip ==
    /\ [][ /\ \A d \in Dates, t \in Titles, P \in PlayTimes, D \in Details,
                 img \in BOOLEAN :
                  AddLiveForm(LiveForm(d, t, P, D, img), "none") =>
                      \A e \in events' \ events :
                          /\ edit_form(e).new_play_time = P
                          /\ edit_form(e).new_ds = D
           /\ \A e \in events :
                  (e \in EditTargets(Label(e)) /\ EditSave(e, edit_form(e), "none"))
                      => events' = events
        ]_vars
    /\ [](\A e \in events : Resaved(e) = e)
    /\ [](\A e \in events : Resaved(Resaved(e)) = Resaved(e))

====
